---- MODULE Spec2Model ----
(***************************************************************************)
(* Model of the chain controller of libraries/chain/controller.cpp.        *)
(*                                                                         *)
(* The controller (controller_impl) is modelled as a record c holding its  *)
(* members; every method is an operator from a controller record to the    *)
(* controller record it leaves behind, with the exception it throws (if    *)
(* any) in c.exc.  The public entry points of class controller are the     *)
(* actions of the state machine.                                           *)
(*                                                                         *)
(* The collaborators whose code is not part of controller.cpp (chainbase   *)
(* database, token_database, fork_database, transaction_context,           *)
(* block_state) are modelled from their documented contract.               *)
(***************************************************************************)
EXTENDS Integers, Sequences, FiniteSets, TLC

\* ------------------------------------------------------------------ bounds

\* block_state objects that ever exist (genesis included)
MaxBlocks == 3

\* transactions applied into one pending block through the public API
MaxPendingTrxs == 2

\* block_state objects that ever exist in a node that only receives blocks
MaxForkBlocks == 4

\* iterations the undefined loop of a failed fork switch is followed for
MaxStrayPops == 2

\* entries of a block log that startup finds on disk (genesis included)
MaxLogBlocks == 3

\* blocks of the chain of a node that proposes producer schedules
MaxScheduleBlocks == 4

\* ------------------------------------------------------------ input data

\* The transactions a client or a block may carry.  Each is a list of
\* actions; "ok" is an action whose apply handler mutates both stores,
\* "throw" an action whose apply handler raises an (objective) exception.
Trxs == {"tOk", "tAuth", "tThrow"}

TrxActions(t) ==
  CASE t = "tOk"    -> <<"ok">>
    [] t = "tAuth"  -> <<"ok">>
    [] t = "tThrow" -> <<"ok", "throw">>

\* whether the keys recovered from the signatures satisfy every action
TrxAuthorized(t) == t # "tAuth"

MaxActions == 2

\* deadline values: 0 is fc::time_point() (uninitialized), k in 1..MaxActions
\* expires right before the k-th action, DeadlineMax never expires
DeadlineMax == MaxActions + 1

Deadlines == 0..DeadlineMax

Range(s) == {s[i] : i \in 1..Len(s)}

\* the bodies a received block may carry
BlockBodies == {<<>>, <<"tOk">>, <<"tThrow">>}

\* ------------------------------------------------- chainbase::database

\* start_undo_session(true): push an undo state, ++revision
db_start_undo_session(db) ==
  [db EXCEPT !.revision = @ + 1,
             !.stack = Append(@, [revision |-> db.revision + 1, data |-> db.data])]

\* undo(): restore the newest undo state and --revision; nothing when the
\* undo stack is empty
db_undo(db) ==
  IF db.stack = <<>>
  THEN [db EXCEPT !.nundo = @ + 1]
  ELSE [db EXCEPT !.data = db.stack[Len(db.stack)].data,
                  !.stack = SubSeq(db.stack, 1, Len(db.stack) - 1),
                  !.revision = @ - 1,
                  !.nundo = @ + 1]

RECURSIVE DropCommitted(_, _)
DropCommitted(stack, n) ==
  IF stack # <<>> /\ stack[1].revision <= n
  THEN DropCommitted(Tail(stack), n)
  ELSE stack

\* commit(n): forget every undo state whose revision is <= n
db_commit(db, n) ==
  [db EXCEPT !.stack = DropCommitted(db.stack, n), !.ncommit = @ + 1]

\* set_revision(n): only legal with an empty undo stack
db_set_revision(db, n) == [db EXCEPT !.revision = n]

\* ------------------------------------------------------ token_database

\* new_savepoint_session(seq): a savepoint named seq over the current data
token_new_savepoint(tdb, seq) ==
  [tdb EXCEPT !.savepoints = Append(@, [seq |-> seq, data |-> tdb.data])]

\* rollback_to_latest_savepoint(): restore and drop the newest savepoint
token_rollback_to_latest_savepoint(tdb) ==
  IF tdb.savepoints = <<>>
  THEN [tdb EXCEPT !.nrollback = @ + 1]
  ELSE [tdb EXCEPT !.data = tdb.savepoints[Len(tdb.savepoints)].data,
                   !.savepoints = SubSeq(tdb.savepoints, 1, Len(tdb.savepoints) - 1),
                   !.nrollback = @ + 1]

RECURSIVE DropSavepoints(_, _)
DropSavepoints(sps, n) ==
  IF sps # <<>> /\ sps[1].seq <= n
  THEN DropSavepoints(Tail(sps), n)
  ELSE sps

\* pop_savepoints(n): discard every savepoint whose name is <= n
token_pop_savepoints(tdb, n) ==
  [tdb EXCEPT !.savepoints = DropSavepoints(tdb.savepoints, n), !.npop = @ + 1]

\* ------------------------------------------------------- fork_database

\* b is ranked before a: higher dpos_irreversible_blocknum, then higher
\* block number, then the earlier block (ids are handed out in creation
\* order, which stands for the timestamp / id tie-break)
Better(blocks, a, b) ==
  \/ blocks[a].lib > blocks[b].lib
  \/ blocks[a].lib = blocks[b].lib /\ blocks[a].block_num > blocks[b].block_num
  \/ blocks[a].lib = blocks[b].lib /\ blocks[a].block_num = blocks[b].block_num /\ a < b

\* the head of the index (0 when the index is empty)
BestOf(blocks, index) ==
  IF index = {} THEN 0
  ELSE CHOOSE a \in index : \A b \in index \ {a} : Better(blocks, a, b)

RECURSIVE Descendants(_, _, _)
Descendants(blocks, index, ids) ==
  LET more == {b \in index \ ids : blocks[b].previous \in ids}
  IN IF more = {} THEN ids ELSE Descendants(blocks, index, ids \cup more)

\* remove(id): erase the block and everything built on it, then re-elect head
fork_db_remove(c, id) ==
  LET gone  == Descendants(c.blocks, c.fork_db.index, {id})
      index == c.fork_db.index \ gone
  IN [c EXCEPT !.fork_db = [index |-> index, head |-> BestOf(c.blocks, index)]]

\* set_validity that leaves an invalid block in the index
fork_db_set_validity_keeping(c, id, valid) ==
  [c EXCEPT !.blocks[id].validated = valid]

\* set_validity(h, valid): an invalid block leaves the index
fork_db_set_validity(c, id, valid) ==
  LET c1 == [c EXCEPT !.blocks[id].validated = valid]
  IN IF valid THEN c1 ELSE fork_db_remove(c1, id)

\* mark_in_current_chain that sets the mark whatever the flag
fork_db_mark_in_current_chain_always(c, id, flag) ==
  [c EXCEPT !.blocks[id].in_current_chain = TRUE]

\* mark_in_current_chain(h, flag)
fork_db_mark_in_current_chain(c, id, flag) ==
  [c EXCEPT !.blocks[id].in_current_chain = flag]

RECURSIVE Ancestry(_, _, _)
\* id and its ancestors that are in the index, newest first
Ancestry(blocks, index, id) ==
  IF id = 0 \/ id \notin index THEN <<>>
  ELSE <<id>> \o Ancestry(blocks, index, blocks[id].previous)

RECURSIVE UpTo(_, _)
\* the prefix of branch s before the first member of set stop
UpTo(s, stop) ==
  IF s = <<>> \/ s[1] \in stop THEN <<>> ELSE <<s[1]>> \o UpTo(Tail(s), stop)

\* fetch_branch_from(first, second): both branches back to the common
\* ancestor (excluded), each from its tip downwards
fork_db_fetch_branch_from(c, first, second) ==
  LET a == Ancestry(c.blocks, c.fork_db.index, first)
      b == Ancestry(c.blocks, c.fork_db.index, second)
  IN [first |-> UpTo(a, Range(b)), second |-> UpTo(b, Range(a)),
      linked |-> Range(a) \cap Range(b) # {}]


\* -------------------------------------------------- controller_impl data

\* producer_schedule_type: a version and a list of producers
InitialSchedule == [version |-> 0, producers |-> <<"evt">>]

NoSchedule == [version |-> 0, producers |-> <<>>]

\* the proposal fields of global_property_object; block number 0 stands for
\* an optional without a value
NoProposal == [proposed_schedule_block_num |-> 0, proposed_schedule |-> NoSchedule]

NoBlock ==
  [previous |-> 0, block_num |-> 0, lib |-> 0, trxs |-> <<>>, body |-> <<>>,
   hdr |-> [transaction_mroot |-> <<>>, action_mroot |-> <<>>],
   ext |-> FALSE, validated |-> FALSE, in_current_chain |-> FALSE,
   active_schedule |-> InitialSchedule, pending_schedule |-> NoSchedule,
   pending_schedule_lib_num |-> 0]

\* optional<pending_state> without a value
NoPending ==
  [valid |-> FALSE, db_session |-> FALSE, token_session |-> FALSE,
   bs |-> NoBlock, id |-> 0, actions |-> <<>>,
   finalized |-> FALSE, signed |-> FALSE, pushes |-> 0,
   pre |-> <<>>, plain |-> FALSE]

NoTrace == [except |-> "none", receipt |-> FALSE]

Throw(c, e) == [c EXCEPT !.exc = e]

\* the signals of the controller
Signals ==
  {"accepted_block_header", "accepted_block", "accepted_transaction",
   "applied_transaction", "accepted_confirmation", "irreversible_block"}

\* emit without its catch block: what the subscriber throws leaves the call
emit_propagating(c, signal) ==
  IF signal \in c.throwing
  THEN Throw([c EXCEPT !.signals = Append(@, signal)], "signal handler threw exception")
  ELSE [c EXCEPT !.signals = Append(@, signal)]

\* emit(s, a): the subscribers of s run; whatever one of them throws is
\* caught and logged.  c.throwing holds the signals whose subscriber throws;
\* c.signals lists the signals of the call at hand and c.caught counts the
\* exceptions emit caught during it (observation only)
emit(c, signal) ==
  [c EXCEPT !.signals = Append(@, signal),
            !.caught = IF signal \in c.throwing THEN @ + 1 ELSE @]

\* merkle(digests): a collision-free oracle, kept as the list it hashes
merkle(digests) == digests

\* the action receipts a list of transactions leaves when all of them apply
RECURSIVE ActionsOf(_)
ActionsOf(ts) ==
  IF ts = <<>> THEN <<>>
  ELSE [i \in 1..Len(TrxActions(ts[1])) |-> <<ts[1], i>>] \o ActionsOf(Tail(ts))

\* the header roots a producer signs over a list of applied transactions
HeaderOver(ts) == [transaction_mroot |-> merkle(ts), action_mroot |-> merkle(ActionsOf(ts))]

pending_reset_keeping_tokens(c) ==
  IF ~c.pending.valid THEN c
  ELSE [c EXCEPT !.db = IF c.pending.db_session THEN db_undo(@) ELSE @,
                 !.pending = NoPending]

\* pending.reset(): destroying the two sessions rolls both stores back
\* unless they were pushed / accepted
pending_reset(c) ==
  IF ~c.pending.valid THEN c
  ELSE [c EXCEPT !.token_db = IF c.pending.token_session
                              THEN token_rollback_to_latest_savepoint(@) ELSE @,
                 !.db = IF c.pending.db_session THEN db_undo(@) ELSE @,
                 !.pending = NoPending]

\* pending_state::push
pending_push(c) ==
  [c EXCEPT !.pending.db_session = FALSE, !.pending.token_session = FALSE]

pop_block_without_rollback(c) ==
  LET prev == c.blocks[c.head].previous
  IN IF prev \notin c.fork_db.index
     THEN Throw(c, "attempt to pop beyond last irreversible block")
     ELSE [c EXCEPT !.unapplied_transactions = @ \cup Range(c.blocks[c.head].trxs),
                    !.head = prev,
                    !.db = db_undo(@)]

pop_block_keeping_trxs(c) ==
  LET prev == c.blocks[c.head].previous
  IN IF prev \notin c.fork_db.index
     THEN Throw(c, "attempt to pop beyond last irreversible block")
     ELSE [c EXCEPT !.head = prev,
                    !.db = db_undo(@),
                    !.token_db = token_rollback_to_latest_savepoint(@)]

pop_block(c) ==
  LET prev == c.blocks[c.head].previous
  IN IF prev \notin c.fork_db.index
     THEN Throw(c, "attempt to pop beyond last irreversible block")
     ELSE [c EXCEPT !.unapplied_transactions = @ \cup Range(c.blocks[c.head].trxs),
                    !.head = prev,
                    !.db = db_undo(@),
                    !.token_db = token_rollback_to_latest_savepoint(@)]

on_irreversible_appending_always(c, s) ==
  [c EXCEPT !.blog = Append(@, s),
            !.irreversible = Append(@, [id |-> s, logged |-> TRUE,
                                        fork_lib |-> c.blocks[c.fork_db.head].lib]),
            !.db = db_commit(@, c.blocks[s].block_num),
            !.token_db = token_pop_savepoints(@, c.blocks[s].block_num)]

\* c.irreversible lists the events of the call at hand (observation only):
\* the block, whether it was appended to the log, and the irreversible
\* block number of the fork database's head that raised the event
on_irreversible(c, s) ==
  LET log_head     == c.blog[Len(c.blog)]
      lh_block_num == c.blocks[log_head].block_num
      block_num    == c.blocks[s].block_num
      links        == c.blocks[s].previous = log_head
      event(logged) == [id |-> s, logged |-> logged,
                        fork_lib |-> c.blocks[c.fork_db.head].lib]
      c1 == IF block_num - 1 = lh_block_num /\ links
            THEN [c EXCEPT !.blog = Append(@, s),
                           !.irreversible = Append(@, event(TRUE))]
            ELSE [c EXCEPT !.irreversible = Append(@, event(FALSE))]
      committed(c2) ==
        IF c2.exc # "none" THEN c2
        ELSE [c2 EXCEPT !.db = db_commit(@, block_num),
                        !.token_db = token_pop_savepoints(@, block_num)]
  IN IF block_num - 1 = lh_block_num /\ ~links
     THEN Throw(c, "irreversible doesn't link to block log head")
     ELSE committed(emit(c1, "irreversible_block"))

\* fork_database::prune(h): signal irreversible(h), erase h and every other
\* block of the same number with what is built on it
fork_db_prune(c, h) ==
  LET erase(c1) ==
        LET index == c1.fork_db.index \ {h}
            same  == {b \in index : c1.blocks[b].block_num = c1.blocks[h].block_num}
            gone  == IF same = {} THEN {} ELSE Descendants(c1.blocks, index, same)
            left  == index \ gone
        IN IF c1.exc # "none" THEN c1
           ELSE [c1 EXCEPT !.fork_db =
                   [index |-> left,
                    head  |-> IF same = {} THEN c1.fork_db.head ELSE BestOf(c1.blocks, left)]]
  IN erase(on_irreversible(c, h))

fork_db_add_pruning_always(c, id) ==
  LET index  == c.fork_db.index \cup {id}
      hd     == BestOf(c.blocks, index)
      c1     == [c EXCEPT !.fork_db = [index |-> index, head |-> hd]]
      lowest == {o \in index : \A b \in index : c.blocks[o].block_num <= c.blocks[b].block_num}
  IN fork_db_prune(c1, CHOOSE o \in lowest : \A b \in lowest : o <= b)

\* fork_database::add(block_state): insert, re-elect head, prune the oldest
\* block once the head's irreversible number has passed it.  The oldest
\* block is the first by block number; among blocks of one number those of
\* the current chain come first
fork_db_add(c, id) ==
  LET index  == c.fork_db.index \cup {id}
      hd     == BestOf(c.blocks, index)
      c1     == [c EXCEPT !.fork_db = [index |-> index, head |-> hd]]
      lowest == {o \in index : \A b \in index : c.blocks[o].block_num <= c.blocks[b].block_num}
      first  == IF \E o \in lowest : c.blocks[o].in_current_chain
                THEN {o \in lowest : c.blocks[o].in_current_chain}
                ELSE lowest
      oldest == CHOOSE o \in first : \A b \in first : o <= b
  IN IF c.blocks[oldest].block_num < c.blocks[hd].lib
     THEN fork_db_prune(c1, oldest)
     ELSE c1


\* ----------------------------------------------- controller_impl methods

\* block_state(*head, when): the pending block built on head; lib is the
\* dpos_irreversible_blocknum the header state derives for it
NewPendingBlock(c, lib) ==
  [NoBlock EXCEPT !.previous = c.head,
                  !.block_num = c.blocks[c.head].block_num + 1,
                  !.lib = lib,
                  !.in_current_chain = TRUE,
                  !.active_schedule = c.blocks[c.head].active_schedule,
                  !.pending_schedule = c.blocks[c.head].pending_schedule,
                  !.pending_schedule_lib_num = c.blocks[c.head].pending_schedule_lib_num]

\* block_header_state::maybe_promote_pending: a pending schedule whose block
\* has become irreversible is moved into the active schedule
promotes_pending(bs) ==
  bs.pending_schedule.producers # <<>> /\ bs.lib >= bs.pending_schedule_lib_num

maybe_promote_pending(bs) ==
  IF promotes_pending(bs)
  THEN [bs EXCEPT !.active_schedule = bs.pending_schedule,
                  !.pending_schedule.producers = <<>>]
  ELSE bs

\* the proposal is moved although the pending schedule was just promoted
promote_proposed_after_promotion(c, was_pending_promoted) ==
  LET gpo == c.db.data.gpo
      bs  == c.pending.bs
  IN IF /\ gpo.proposed_schedule_block_num # 0
        /\ gpo.proposed_schedule_block_num <= bs.lib
        /\ bs.pending_schedule.producers = <<>>
     THEN [c EXCEPT !.pending.bs.pending_schedule = gpo.proposed_schedule,
                    !.pending.bs.pending_schedule_lib_num = bs.block_num,
                    !.db.data.gpo = NoProposal]
     ELSE c

\* the statements of start_block on the proposed schedule:
\* set_new_producers(gpo.proposed_schedule) makes it the pending schedule of
\* the pending block, db.modify clears the proposal
promote_proposed(c, was_pending_promoted) ==
  LET gpo == c.db.data.gpo
      bs  == c.pending.bs
  IN IF /\ gpo.proposed_schedule_block_num # 0
        /\ gpo.proposed_schedule_block_num <= bs.lib
        /\ bs.pending_schedule.producers = <<>>
        /\ ~was_pending_promoted
     THEN [c EXCEPT !.pending.bs.pending_schedule = gpo.proposed_schedule,
                    !.pending.bs.pending_schedule_lib_num = bs.block_num,
                    !.db.data.gpo = NoProposal]
     ELSE c

\* token_db.new_savepoint_session(db.revision()) is an argument of the same
\* call as db.start_undo_session(true): the order of the two evaluations is
\* the compiler's, so the savepoint is named by the revision before
\* (right-to-left) or after (left-to-right) the undo session opened
SavepointSeq(c) ==
  IF c.arg_order = "ltr" THEN c.db.revision + 1 ELSE c.db.revision

\* the contents of both stores (observation only: pending.pre remembers
\* them as start_block found them)
Snapshot(c) == [db |-> c.db.data, revision |-> c.db.revision, token_db |-> c.token_db.data]

start_block(c, when_ok, lib) ==
  IF c.pending.valid THEN Throw(c, "assert !pending")
  ELSE IF c.db.revision # c.blocks[c.head].block_num
  THEN Throw(c, "assert db.revision() == head->block_num")
  ELSE LET c1 == [c EXCEPT !.db = db_start_undo_session(@),
                           !.token_db = token_new_savepoint(@, SavepointSeq(c)),
                           !.pending = [NoPending EXCEPT !.valid = TRUE,
                                                         !.db_session = TRUE,
                                                         !.token_session = TRUE,
                                                         !.pre = Snapshot(c)]]
       IN IF ~when_ok
          THEN pending_reset(Throw(c1, "block_state"))      \* guard_pending fires
          ELSE promote_proposed(
                 [c1 EXCEPT !.pending.bs = maybe_promote_pending(NewPendingBlock(c, lib))],
                 promotes_pending(NewPendingBlock(c, lib)))

failure_is_never_subjective(e) == FALSE

failure_is_subjective(e) == e = "deadline_exception"

\* transaction_context::exec from the i-th action on: the deadline is
\* checked before each action, each handler writes through to both stores
\* under the sessions of the pending block
RECURSIVE exec(_, _, _, _)
exec(c, t, i, deadline) ==
  IF i > Len(TrxActions(t)) THEN [c |-> c, except |-> "none"]
  ELSE IF deadline <= i THEN [c |-> c, except |-> "deadline_exception"]
  ELSE IF TrxActions(t)[i] = "throw" THEN [c |-> c, except |-> "action_exception"]
  ELSE exec([c EXCEPT !.db.data.writes = @ + 1, !.token_db.data.writes = @ + 1],
            t, i + 1, deadline)

\* push_receipt that adds no receipt to the pending block
push_receipt_dropped(c, t) == c

\* push_receipt
push_receipt(c, t) == [c EXCEPT !.pending.bs.body = Append(@, t)]

push_transaction_caught_rethrowing(c, t, e) == Throw(c, e)

push_transaction_caught_with_receipt(c, t, e) ==
  [c EXCEPT !.trace = [except |-> e, receipt |-> FALSE],
            !.pending.bs.body = Append(@, t),
            !.unapplied_transactions = IF failure_is_subjective(e) THEN @ ELSE @ \ {t}]

\* the catch block of push_transaction and the statements after it
push_transaction_caught(c, t, e) ==
  [c EXCEPT !.trace = [except |-> e, receipt |-> FALSE],
            !.unapplied_transactions = IF failure_is_subjective(e) THEN @ ELSE @ \ {t}]

\* the same with the accepted flag of the metadata not looked at
push_transaction_applied_accepting_again(c, t, meta, implicit) ==
  LET c1 == IF implicit THEN c
            ELSE [push_receipt(c, t) EXCEPT !.pending.bs.trxs = Append(@, t)]
      c2 == [c1 EXCEPT !.pending.actions = @ \o ActionsOf(<<t>>),
                       !.trace = [except |-> "none", receipt |-> TRUE]]
      c3 == emit(emit(c2, "accepted_transaction"), "applied_transaction")
      c4 == IF meta = "client" THEN [c3 EXCEPT !.accepted = @ \cup {t}] ELSE c3
  IN IF implicit THEN c4 ELSE [c4 EXCEPT !.unapplied_transactions = @ \ {t}]

\* the statements of push_transaction after exec() and finalize() returned
push_transaction_applied(c, t, meta, implicit) ==
  LET c1 == IF implicit THEN c
            ELSE [push_receipt(c, t) EXCEPT !.pending.bs.trxs = Append(@, t)]
      c2 == [c1 EXCEPT !.pending.actions = @ \o ActionsOf(<<t>>),
                       !.trace = [except |-> "none", receipt |-> TRUE]]
      \* if(!trx->accepted) { emit(accepted_transaction); trx->accepted = true; }
      accept(ca) ==
        IF meta = "client" /\ t \in ca.accepted THEN ca
        ELSE LET ce == emit(ca, "accepted_transaction")
             IN IF ce.exc # "none" \/ meta # "client" THEN ce
                ELSE [ce EXCEPT !.accepted = @ \cup {t}]
      applied(ca) ==
        IF ca.exc # "none" THEN ca ELSE emit(ca, "applied_transaction")
      erased(ca) ==
        IF ca.exc # "none" \/ implicit THEN ca
        ELSE [ca EXCEPT !.unapplied_transactions = @ \ {t}]
  IN erased(applied(accept(c2)))

\* meta tells whose transaction_metadata object is pushed: "client" for the
\* one a caller of the public method holds on to, "block" for the fresh one
\* apply_block makes for a receipt
push_transaction(c, t, meta, deadline, implicit) ==
  IF deadline = 0 THEN Throw(c, "deadline cannot be uninitialized")
  ELSE IF ~implicit /\ ~TrxAuthorized(t)
  THEN push_transaction_caught(c, t, "tx_missing_sigs")
  ELSE LET executed(r) == IF r.except # "none"
                          THEN push_transaction_caught(r.c, t, r.except)
                          ELSE push_transaction_applied(r.c, t, meta, implicit)
       IN executed(exec(c, t, 1, deadline))

RingSize == 65536

\* the block summary ring, kept as the slots that hold a block id
SetSlot(summary, sid, id) ==
  [i \in DOMAIN summary \cup {sid} |-> IF i = sid THEN id ELSE summary[i]]

\* a summary written to the slot of the block the pending one is built on
create_block_summary_at_head_slot(c, id) ==
  LET sid == c.blocks[c.head].block_num % RingSize
  IN [c EXCEPT !.db.data.summary = SetSlot(@, sid, id)]

create_block_summary(c, id) ==
  LET sid == c.pending.bs.block_num % RingSize
  IN [c EXCEPT !.db.data.summary = SetSlot(@, sid, id)]

\* the roots set_action_merkle and set_trx_merkle put into the pending header
PendingHeader(c) ==
  [action_mroot |-> merkle(c.pending.actions),
   transaction_mroot |-> merkle(c.pending.bs.body)]

\* header.id(): the hash of the header.  While block `known` of the fork
\* database is applied the pending header has that block's id exactly when
\* it has its roots; any other header hashes to an id no block has yet
HeaderId(c, hdr, known) ==
  IF known # 0 /\ c.blocks[known].hdr = hdr THEN known ELSE Len(c.blocks) + 1

finalize_block(c, known) ==
  IF ~c.pending.valid
  THEN Throw(c, "it is not valid to finalize when there is no pending block")
  ELSE LET id == HeaderId(c, PendingHeader(c), known)
       IN create_block_summary(
            [c EXCEPT !.pending.bs.hdr = PendingHeader(c),
                      !.pending.id = id,
                      !.pending.finalized = TRUE],
            id)

\* signed_hdr is the header the signature returned by the callback was made
\* over: sign(callback, false) checks the signature against the digest of
\* the pending header
sign_block(c, signed_hdr) ==
  IF signed_hdr # c.pending.bs.hdr THEN Throw(c, "invalid signature")
  ELSE [c EXCEPT !.pending.signed = TRUE]

\* fork_db.add(pending->_pending_block_state): the block_state enters the
\* fork database under its id; a block the index already holds is refused
commit_block(c, add_to_fork_db) ==
  LET id == c.pending.id
      bs == [c.pending.bs EXCEPT !.validated = TRUE]
      c0 == IF id > Len(c.blocks)
            THEN [c EXCEPT !.blocks = Append(@, bs), !.pending.bs = bs]
            ELSE [c EXCEPT !.blocks[id].validated = TRUE, !.pending.bs = bs]
      \* head = fork_db.head(); FC_ASSERT(new_bsp == head, ...)
      set_head(ca) ==
        IF ca.exc # "none" THEN ca
        ELSE IF ca.fork_db.head # id
        THEN Throw([ca EXCEPT !.head = ca.fork_db.head],
                   "committed block did not become the new head in fork database")
        ELSE [ca EXCEPT !.head = ca.fork_db.head]
      header_accepted(ca) ==
        IF ca.exc # "none" THEN ca ELSE set_head(emit(ca, "accepted_block_header"))
      push(c1) == IF c1.exc # "none" THEN c1 ELSE pending_reset(pending_push(c1))
      block_accepted(c1) ==
        IF c1.exc # "none" THEN c1 ELSE push(emit(c1, "accepted_block"))
  IN block_accepted(IF ~add_to_fork_db THEN c
                    ELSE IF id \in c.fork_db.index THEN Throw(c0, "duplicate block added?")
                    ELSE header_accepted(fork_db_add(c0, id)))

abort_block_losing_trxs(c) == pending_reset(c)

abort_block(c) ==
  IF c.pending.valid
  THEN pending_reset([c EXCEPT !.unapplied_transactions = @ \cup Range(c.pending.bs.trxs)])
  ELSE c


\* the receipts of a block, one push_transaction each; the returned trace
\* is not looked at
RECURSIVE apply_receipts(_, _, _)
apply_receipts(c, body, i) ==
  IF i > Len(body) \/ c.exc # "none" THEN c
  ELSE apply_receipts(push_transaction(c, body[i], "block", DeadlineMax, FALSE), body, i + 1)

\* what a call of apply_block on block b leaves as it returns or throws
\* (observation only): c is the controller it was called on, r the one it
\* left; from is the head it was called on and pops the number of undo
\* sessions the call at hand had undone by then
ApplyOutcome(c, r, b) ==
  [id |-> b, exc |-> r.exc, pending |-> r.pending.valid,
   from |-> c.head, pops |-> c.db.nundo,
   head_kept |-> r.head = c.head,
   stores_kept |-> /\ r.db.data = c.db.data
                   /\ r.db.revision = c.db.revision
                   /\ r.token_db.data = c.token_db.data]

apply_block(c, b, trust) ==
  LET blk == c.blocks[b]
      started == IF blk.ext THEN Throw(c, "no supported extensions")
                 ELSE start_block(c, TRUE, blk.lib)
      pushed(c1)    == IF c1.exc # "none" THEN c1 ELSE apply_receipts(c1, blk.body, 1)
      finalized(c2) == IF c2.exc # "none" THEN c2 ELSE finalize_block(c2, b)
      signed(c3)    == IF c3.exc # "none" THEN c3 ELSE sign_block(c3, blk.hdr)
      committed(c4) == IF c4.exc # "none" THEN c4 ELSE commit_block(c4, FALSE)
      \* catch(...) { abort_block(); throw; }
      caught(c5)    == IF c5.exc # "none" THEN abort_block(c5) ELSE c5
      returned(c6)  == [c6 EXCEPT !.applied = Append(@, ApplyOutcome(c, c6, b))]
  IN returned(caught(committed(signed(finalized(pushed(started))))))

\* for(itr = branch.begin(); ...) { mark_in_current_chain(*itr, false); pop_block(); }
RECURSIVE pop_branch(_, _, _)
pop_branch(c, branch, i) ==
  IF i > Len(branch) \/ c.exc # "none" THEN c
  ELSE pop_branch(pop_block(fork_db_mark_in_current_chain(c, branch[i], FALSE)), branch, i + 1)

\* while(ritr != rend()) { set_validity(*ritr, false); ++ritr; }
RECURSIVE invalidate_rest(_, _, _)
invalidate_rest(c, branch, j) ==
  IF j < 1 THEN c
  ELSE invalidate_rest(fork_db_set_validity(c, branch[j], FALSE), branch, j - 1)

\* "pop all blocks from the bad fork": the loop starts at (ritr + 1).base()
\* with ritr == rend(), one before the first element of the apply branch,
\* and runs until the iterator equals the end of the OTHER vector.  Both are
\* undefined; n is how many times the build at hand runs the loop body
\* (mark_in_current_chain and pop_block) before the comparison ends it.
RECURSIVE stray_pops(_, _)
stray_pops(c, n) ==
  IF n = 0 \/ c.exc # "none" THEN c
  ELSE stray_pops(pop_block(fork_db_mark_in_current_chain(c, c.head, FALSE)), n - 1)

switch_head_marking_only(c, id) == fork_db_mark_in_current_chain(c, id, TRUE)

\* head = *ritr; fork_db.mark_in_current_chain(*ritr, true);
switch_head(c, id) == fork_db_mark_in_current_chain([c EXCEPT !.head = id], id, TRUE)

\* "re-apply good blocks"
RECURSIVE reapply_branch(_, _, _)
reapply_branch(c, branch, j) ==
  IF j < 1 \/ c.exc # "none" THEN c
  ELSE LET applied(c1) ==
             IF c1.exc # "none" THEN c1
             ELSE reapply_branch(switch_head(c1, branch[j]), branch, j - 1)
       IN applied(apply_block(c, branch[j], TRUE))

Crash(c) == [c EXCEPT !.exc = "SIGSEGV", !.crashed = TRUE, !.ub = TRUE]

\* FC_ASSERT(head_block_id() == branches.second.back()->header.previous):
\* back() of an empty branch is undefined, ub picks what the build does
sync_assert(c, second, ub, msg) ==
  IF second = <<>>
  THEN IF ub < 0 THEN Crash(c)
       ELSE IF ub = 0 THEN Throw([c EXCEPT !.ub = TRUE], msg)
       ELSE [c EXCEPT !.ub = TRUE]
  ELSE IF c.head # c.blocks[second[Len(second)]].previous THEN Throw(c, msg) ELSE c

\* the catch of a failed replay: invalidate the rest of the apply branch,
\* undo the switch, rethrow
reverse_reorg(c, branches, j, ub) ==
  LET except == c.exc
      popped(c1)    == IF ub < 0 THEN Crash(c1) ELSE stray_pops([c1 EXCEPT !.ub = TRUE], ub)
      in_sync(c2)   == IF c2.exc # "none" THEN c2
                       ELSE sync_assert(c2, branches.second, ub,
                              "loss of sync between fork_db and chainbase during fork switch reversal")
      reapplied(c3) == IF c3.exc # "none" THEN c3
                       ELSE reapply_branch(c3, branches.second, Len(branches.second))
      rethrown(c4)  == IF c4.exc # "none" THEN c4 ELSE Throw(c4, except)
  IN rethrown(reapplied(in_sync(popped(
       invalidate_rest([c EXCEPT !.exc = "none"], branches.first, j)))))

\* for(ritr = branches.first.rbegin(); ...) apply_block(*ritr, false)
RECURSIVE apply_branch(_, _, _, _)
apply_branch(c, branches, j, ub) ==
  IF j < 1 THEN c
  ELSE LET applied(c1) ==
             IF c1.exc = "none"
             THEN apply_branch(switch_head(c1, branches.first[j]), branches, j - 1, ub)
             ELSE reverse_reorg(c1, branches, j, ub)
       IN applied(apply_block(c, branches.first[j], FALSE))

maybe_switch_forks(c, trust, ub) ==
  LET new_head == c.fork_db.head
      applied(c1) ==
        IF c1.exc = "none"
        THEN [fork_db_set_validity(fork_db_mark_in_current_chain(c1, new_head, TRUE),
                                   new_head, TRUE) EXCEPT !.head = new_head, !.msf = "fast"]
        ELSE [fork_db_set_validity(c1, new_head, FALSE) EXCEPT !.msf = "fast"]
      switch(branches) ==
        LET in_sync(c1) ==
              IF c1.exc # "none" THEN c1
              ELSE sync_assert(c1, branches.second, ub,
                     "loss of sync between fork_db and chainbase during fork switch")
            replayed(c2) ==
              IF c2.exc # "none" THEN c2
              ELSE apply_branch(c2, branches, Len(branches.first), ub)
        IN replayed(in_sync(
             IF ~branches.linked THEN Throw([c EXCEPT !.msf = "reorg"], "fetch_branch_from")
             ELSE pop_branch([c EXCEPT !.msf = "reorg"], branches.second, 1)))
  IN IF c.blocks[new_head].previous = c.head
     THEN applied(apply_block(c, new_head, trust))
     ELSE IF new_head # c.head
     THEN switch(fork_db_fetch_branch_from(c, new_head, c.head))
     ELSE [c EXCEPT !.msf = "nochange"]

\* fork_database::add(signed_block, trust): the block must link to a known
\* one; its block_state is built from the parent's
\* b is pushed under id: the next free id for a block nobody has seen, its
\* own id for a block read back from the block log
push_block_as(c, id, b, trust, ub) ==
  LET added(c1) == IF c1.exc # "none" THEN c1 ELSE maybe_switch_forks(c1, trust, ub)
      header_accepted(c1) ==
        IF c1.exc # "none" THEN c1 ELSE emit(c1, "accepted_block_header")
      \* the block_state made of the signed block and its parent's state
      parent    == c.blocks[b.previous]
      bs        == maybe_promote_pending(
                     [b EXCEPT !.active_schedule = parent.active_schedule,
                               !.pending_schedule = parent.pending_schedule,
                               !.pending_schedule_lib_num = parent.pending_schedule_lib_num])
      known     == IF id > Len(c.blocks) THEN Append(c.blocks, bs)
                   ELSE [c.blocks EXCEPT ![id] = bs]
  IN IF c.pending.valid
     THEN Throw(c, "it is not valid to push a block when there is a pending block")
     ELSE IF b.previous \notin c.fork_db.index THEN Throw(c, "unlinkable block")
     ELSE added(header_accepted(fork_db_add([c EXCEPT !.blocks = known], id)))

push_block(c, b, trust, ub) == push_block_as(c, Len(c.blocks) + 1, b, trust, ub)

\* push_confirmation without its assertion
push_confirmation_unguarded(c, ub) ==
  maybe_switch_forks(emit(c, "accepted_confirmation"), FALSE, ub)

\* fork_database::add(confirmation) records the confirmation on its header
push_confirmation(c, ub) ==
  IF c.pending.valid
  THEN Throw(c, "it is not valid to push a confirmation when there is a pending block")
  ELSE LET accepted_confirmation(c1) ==
             IF c1.exc # "none" THEN c1 ELSE maybe_switch_forks(c1, FALSE, ub)
       IN accepted_confirmation(emit(c, "accepted_confirmation"))


\* what my->pending->_pending_block_state reads while optional<pending_state>
\* has no value: the process dies, or the read yields what the freed memory
\* holds, the state of some block
StaleReads(c) ==
  {[crash |-> TRUE, bs |-> NoBlock]}
  \cup {[crash |-> FALSE, bs |-> c.blocks[i]] : i \in 1..Len(c.blocks)}

\* the schedule in effect for the pending block: its pending schedule unless
\* that is empty, else its active schedule
in_effect_schedule(bs) ==
  IF bs.pending_schedule.producers = <<>> THEN bs.active_schedule ELSE bs.pending_schedule

\* set_proposed_producers without the comparison with the schedule in effect
set_proposed_producers_unchecked(c, producers, stale) ==
  LET gpo == c.db.data.gpo
      cur_block_num == c.blocks[c.head].block_num + 1
      bs  == IF c.pending.valid THEN c.pending.bs ELSE stale.bs
      sch == [version |-> in_effect_schedule(bs).version + 1, producers |-> producers]
  IN IF /\ gpo.proposed_schedule_block_num # 0
        /\ \/ gpo.proposed_schedule_block_num # cur_block_num
           \/ producers = gpo.proposed_schedule.producers
     THEN [c EXCEPT !.ret = "false"]
     ELSE [c EXCEPT !.db.data.gpo = [proposed_schedule_block_num |-> cur_block_num,
                                     proposed_schedule |-> sch],
                    !.ret = "true"]

\* controller::set_proposed_producers; c.ret is what it returns
set_proposed_producers(c, producers, stale) ==
  LET gpo == c.db.data.gpo
      cur_block_num == c.blocks[c.head].block_num + 1
      bs  == IF c.pending.valid THEN c.pending.bs ELSE stale.bs
      sch == [version |-> in_effect_schedule(bs).version + 1, producers |-> producers]
  IN IF /\ gpo.proposed_schedule_block_num # 0
        /\ \/ gpo.proposed_schedule_block_num # cur_block_num
           \/ producers = gpo.proposed_schedule.producers
     THEN [c EXCEPT !.ret = "false"]
     ELSE IF ~c.pending.valid /\ stale.crash THEN Crash(c)
     ELSE IF producers = in_effect_schedule(bs).producers
     THEN [c EXCEPT !.ret = "false", !.ub = ~c.pending.valid]
     ELSE [c EXCEPT !.db.data.gpo = [proposed_schedule_block_num |-> cur_block_num,
                                     proposed_schedule |-> sch],
                    !.ret = "true",
                    !.ub = ~c.pending.valid]

\* ---------------------------------------------------------------- startup

\* controller_impl's members right after construction, before startup()
Constructed(order) ==
  [blocks |-> <<>>, head |-> 0,
   fork_db |-> [index |-> {}, head |-> 0],
   db |-> [revision |-> 0, stack |-> <<>>,
           data |-> [writes |-> 0, summary |-> <<>>, gpo |-> NoProposal],
           nundo |-> 0, ncommit |-> 0],
   token_db |-> [savepoints |-> <<>>, data |-> [writes |-> 0], nrollback |-> 0, npop |-> 0],
   pending |-> NoPending,
   unapplied_transactions |-> {},
   blog |-> <<>>,
   accepted |-> {},
   arg_order |-> order,
   crashed |-> FALSE,
   replaying |-> FALSE,
   throwing |-> {},
   exc |-> "none", trace |-> NoTrace, msf |-> "none", ub |-> FALSE, applied |-> <<>>,
   irreversible |-> <<>>, signals |-> <<>>, caught |-> 0, ret |-> "none"]

\* the same over a block log directory an earlier run has left: log.blog
\* lists the ids of the logged blocks, log.blocks[id] is the signed block
Reopened(order, log) ==
  [Constructed(order) EXCEPT !.blocks = log.blocks, !.blog = log.blog]

GenesisBlock == [NoBlock EXCEPT !.block_num = 1, !.pending_schedule = InitialSchedule]

initialize_database(c) == [c EXCEPT !.db.data.summary = SetSlot(@, 1, c.head)]

\* blog.read_block_by_num(n): the id of the logged block of that number, 0
\* when the log has none
read_block_by_num(c, n) ==
  IF \E i \in 1..Len(c.blog) : c.blocks[c.blog[i]].block_num = n
  THEN c.blog[CHOOSE i \in 1..Len(c.blog) : c.blocks[c.blog[i]].block_num = n]
  ELSE 0

\* without a block log the genesis block is the first entry of the new log;
\* over a log that ends above block 1 the replay begins (its loop runs one
\* block per step, see replay_block)
initialize_fork_db(c) ==
  LET c1 == [c EXCEPT !.blocks = IF c.blocks = <<>> THEN <<GenesisBlock>>
                                 ELSE [c.blocks EXCEPT ![1] = GenesisBlock],
                      !.head = 1,
                      !.fork_db = [index |-> {1}, head |-> 1],
                      !.db = db_set_revision(@, GenesisBlock.block_num)]
      c2 == initialize_database(c1)
  IN IF c2.blog # <<>> /\ c2.blocks[c2.blog[Len(c2.blog)]].block_num > 1
     THEN [c2 EXCEPT !.replaying = TRUE]
     ELSE IF c2.blog = <<>> THEN [c2 EXCEPT !.blog = <<c2.head>>] ELSE c2

\* while(db.revision() > head->block_num) db.undo();
RECURSIVE undo_to_head(_)
undo_to_head(c) ==
  IF c.db.revision > c.blocks[c.head].block_num
  THEN undo_to_head([c EXCEPT !.db = db_undo(@)])
  ELSE c

\* the statements of init after initialize_fork_db returned
init_checked(c) ==
  LET checked(c2) ==
        IF c2.db.revision # c2.blocks[c2.head].block_num
        THEN Throw(c2, "fork database is inconsistent with shared memory")
        ELSE c2
  IN checked(undo_to_head(c))

init(c) ==
  LET initialized(c1) == IF c1.replaying THEN c1 ELSE init_checked(c1)
  IN initialized(IF c.head = 0 THEN initialize_fork_db(c) ELSE c)

\* one turn of while(auto next = blog.read_block_by_num(head->block_num + 1))
\* self.push_block(next, true); when the log has no next block the loop ends,
\* replaying is cleared and init goes on.  An exception leaves startup().
replay_block(c, ub) ==
  LET next == read_block_by_num(c, c.blocks[c.head].block_num + 1)
      pushed(c1) == IF c1.exc # "none" THEN [c1 EXCEPT !.crashed = TRUE] ELSE c1
  IN IF next = 0
     THEN pushed(init_checked([c EXCEPT !.replaying = FALSE]))
     ELSE pushed(push_block_as(c, next, c.blocks[next], TRUE, ub))

\* ---------------------------------------------------------- state machine

VARIABLES
  blocks,                  \* the block_state objects, by id (1 is genesis)
  head,                    \* controller_impl::head
  fork_db,                 \* controller_impl::fork_db
  db,                      \* controller_impl::db
  token_db,                \* controller_impl::token_db
  pending,                 \* controller_impl::pending
  unapplied_transactions,  \* controller_impl::unapplied_transactions
  blog,                    \* controller_impl::blog
  accepted,                \* transaction_metadata::accepted of the callers' metadata
  arg_order,               \* argument evaluation order of the build
  crashed,                 \* the process died
  replaying,               \* controller_impl::replaying
  throwing,                \* the signals whose subscriber throws
  last                     \* the last call: its name, what it threw, its trace

vars == <<blocks, head, fork_db, db, token_db, pending, unapplied_transactions,
          blog, accepted, arg_order, crashed, replaying, throwing, last>>

\* the controller as the next call finds it
Cur ==
  [blocks |-> blocks, head |-> head, fork_db |-> fork_db, db |-> db,
   token_db |-> token_db, pending |-> pending,
   unapplied_transactions |-> unapplied_transactions, blog |-> blog,
   accepted |-> accepted, arg_order |-> arg_order, crashed |-> crashed,
   replaying |-> replaying, throwing |-> throwing,
   exc |-> "none", trace |-> NoTrace, msf |-> "none", ub |-> FALSE, applied |-> <<>>,
   irreversible |-> <<>>, signals |-> <<>>, caught |-> 0, ret |-> "none"]

\* what a call reports: the exception it threw, the trace it returned, the
\* outcome of each apply_block it made, the number of commit / undo calls it
\* made on each store
Report(op, arg, c) ==
  [op |-> op, arg |-> arg, exc |-> c.exc, except |-> c.trace.except,
   receipt |-> c.trace.receipt, msf |-> c.msf, applied |-> c.applied,
   irreversible |-> c.irreversible,
   signals |-> c.signals, caught |-> c.caught, ret |-> c.ret,
   ncommit |-> c.db.ncommit, nundo |-> c.db.nundo,
   npop |-> c.token_db.npop, nrollback |-> c.token_db.nrollback]

\* the controller as call op leaves it (a process that died takes no call)
Install(op, arg, c) ==
  /\ ~crashed
  /\ blocks' = c.blocks
  /\ head' = c.head
  /\ fork_db' = c.fork_db
  /\ db' = [c.db EXCEPT !.nundo = 0, !.ncommit = 0]
  /\ token_db' = [c.token_db EXCEPT !.nrollback = 0, !.npop = 0]
  /\ pending' = IF c.pending.valid
                THEN [c.pending EXCEPT
                        !.plain = \/ op = "start_block" /\ ~pending.valid
                                  \/ op = "push_transaction" /\ pending.plain]
                ELSE c.pending
  /\ unapplied_transactions' = c.unapplied_transactions
  /\ blog' = c.blog
  /\ accepted' = c.accepted
  /\ arg_order' = c.arg_order
  /\ crashed' = c.crashed
  /\ replaying' = c.replaying
  /\ throwing' = c.throwing
  /\ last' = Report(op, arg, c)

\* the controller as startup() leaves it, or as its replay loop finds it
Started(c) ==
  /\ blocks = c.blocks
  /\ head = c.head
  /\ fork_db = c.fork_db
  /\ db = [c.db EXCEPT !.nundo = 0, !.ncommit = 0]
  /\ token_db = c.token_db
  /\ pending = c.pending
  /\ unapplied_transactions = c.unapplied_transactions
  /\ blog = c.blog
  /\ accepted = c.accepted
  /\ arg_order = c.arg_order
  /\ crashed = c.crashed
  /\ replaying = c.replaying
  /\ throwing = c.throwing
  /\ last = Report("startup", "", c)

Init == \E order \in {"ltr", "rtl"} : Started(init(Constructed(order)))

\* the values block_header_state derives as dpos_irreversible_blocknum of a
\* block built on prev: never below the parent's, below the block's number
LibsAfter(prev) == blocks[prev].lib .. blocks[prev].block_num

\* the block logs of n entries an earlier run can have written: genesis and
\* a chain of blocks on it, block n under id n, each holding transactions
\* that applied
RECURSIVE LogsOf(_)
LogsOf(n) ==
  IF n = 1 THEN {[blocks |-> <<GenesisBlock>>, blog |-> <<1>>]}
  ELSE UNION {
         {[blocks |-> Append(log.blocks,
                             [NoBlock EXCEPT !.previous = n - 1,
                                             !.block_num = n,
                                             !.lib = lib,
                                             !.body = body,
                                             !.hdr = HeaderOver(body)]),
           blog   |-> Append(log.blog, n)] :
            lib \in log.blocks[n - 1].lib .. (n - 1), body \in {<<>>, <<"tOk">>}} :
         log \in LogsOf(n - 1)}

ExistingLogs == UNION {LogsOf(n) : n \in 1..MaxLogBlocks}

\* startup() over a block log directory that is not empty
InitReplay ==
  \E order \in {"ltr", "rtl"}, log \in ExistingLogs : Started(init(Reopened(order, log)))

\* the transactions every action of which applies
Applies(t) == TrxAuthorized(t) /\ \A i \in 1..Len(TrxActions(t)) : TrxActions(t)[i] = "ok"

\* what a received block may hold: transactions with a header over exactly
\* them or over those of them that apply, or a block extension
BlockContents ==
  {[body |-> body, hdr |-> HeaderOver(body), ext |-> FALSE] : body \in BlockBodies}
  \cup {[body |-> body, hdr |-> HeaderOver(SelectSeq(body, Applies)), ext |-> FALSE] :
          body \in BlockBodies}
  \cup {[body |-> <<>>, hdr |-> HeaderOver(<<>>), ext |-> TRUE]}

\* what the undefined loop of a failed fork switch may do: die (-1) or run
\* its body some number of times
UBOutcomes == -1 .. MaxStrayPops

\* a header no pending block has: a signature made over it does not verify
ForgedHeader == [transaction_mroot |-> <<"forged">>, action_mroot |-> <<>>]

StartBlockUpTo(n) ==
  /\ Len(blocks) < n
  /\ \E when_ok \in BOOLEAN, lib \in LibsAfter(head) :
       Install("start_block", "", start_block(Cur, when_ok, lib))

StartBlock == StartBlockUpTo(MaxBlocks)

StartScheduleBlock == StartBlockUpTo(MaxScheduleBlocks)

\* the producer lists a caller proposes
ProducerLists == {<<>>, <<"evt">>, <<"p">>}

SetProposedProducers ==
  \E producers \in ProducerLists :
    \E stale \in IF pending.valid THEN {[crash |-> FALSE, bs |-> NoBlock]} ELSE StaleReads(Cur) :
      Install("set_proposed_producers", producers,
              set_proposed_producers(Cur, producers, stale))

PushTransaction ==
  /\ pending.valid /\ ~pending.finalized
  /\ pending.pushes < MaxPendingTrxs
  /\ \E t \in Trxs, deadline \in Deadlines :
       Install("push_transaction", [trx |-> t, deadline |-> deadline],
               push_transaction([Cur EXCEPT !.pending.pushes = @ + 1], t, "client", deadline, FALSE))

FinalizeBlock ==
  /\ ~pending.finalized
  /\ Install("finalize_block", "", finalize_block(Cur, 0))

SignBlock ==
  /\ pending.valid /\ pending.finalized /\ ~pending.signed
  /\ \E good \in BOOLEAN :
       Install("sign_block", "",
               sign_block(Cur, IF good THEN pending.bs.hdr ELSE ForgedHeader))

CommitBlock ==
  /\ pending.valid /\ pending.signed
  /\ Install("commit_block", "", commit_block(Cur, TRUE))

AbortBlock == Install("abort_block", "", abort_block(Cur))

\* ub tells what the undefined loop does, so it is an input of the calls
\* that run into it only
InstallUB(op, ub, c) == (ub = 0 \/ c.ub) /\ Install(op, "", c)

\* trust only reaches fork_database::add and block_state::sign, which the
\* controller does not look into: received blocks are pushed untrusted
PushBlockUpTo(n) ==
  /\ Len(blocks) < n
  /\ \E prev \in 1..Len(blocks), content \in BlockContents, ub \in UBOutcomes :
       \E lib \in LibsAfter(prev) :
         InstallUB("push_block", ub,
                   push_block(Cur,
                              [NoBlock EXCEPT !.previous = prev,
                                              !.block_num = blocks[prev].block_num + 1,
                                              !.lib = lib,
                                              !.body = content.body,
                                              !.hdr = content.hdr,
                                              !.ext = content.ext],
                              FALSE, ub))

PushBlock == PushBlockUpTo(MaxBlocks)

PushForkBlock == PushBlockUpTo(MaxForkBlocks)

PushConfirmation ==
  \E ub \in UBOutcomes : InstallUB("push_confirmation", ub, push_confirmation(Cur, ub))

PopBlock == Install("pop_block", "", pop_block(Cur))

\* the replay loop of initialize_fork_db, one turn per step
ReplayBlock ==
  /\ replaying
  /\ \E ub \in UBOutcomes : InstallUB("replay_block", ub, replay_block(Cur, ub))

\* startup() has returned: blocks arrive from the network
PushAfterReplay == ~replaying /\ PushForkBlock

Next ==
  \/ StartBlock
  \/ PushTransaction
  \/ FinalizeBlock
  \/ SignBlock
  \/ CommitBlock
  \/ AbortBlock
  \/ PushBlock
  \/ PushConfirmation
  \/ PopBlock

Spec == Init /\ [][Next]_vars

\* a node that produces no blocks: it receives blocks and confirmations
\* only, which leaves room for longer competing branches
NextFork ==
  \/ PushForkBlock
  \/ PushConfirmation
  \/ PopBlock

SpecFork == Init /\ [][NextFork]_vars

\* a node that starts over an existing block log and then receives blocks
NextReplay ==
  \/ ReplayBlock
  \/ PushAfterReplay

SpecReplay == InitReplay /\ [][NextReplay]_vars

\* a node that produces blocks and proposes producer schedules
NextSchedule ==
  \/ StartScheduleBlock
  \/ SetProposedProducers
  \/ FinalizeBlock
  \/ SignBlock
  \/ CommitBlock
  \/ AbortBlock

SpecSchedule == Init /\ [][NextSchedule]_vars

\* a node every subscriber of which throws on every emission
InitSignals ==
  \E order \in {"ltr", "rtl"} :
    Started(init([Constructed(order) EXCEPT !.throwing = Signals]))

NextSignals ==
  \/ StartBlock
  \/ PushTransaction
  \/ FinalizeBlock
  \/ SignBlock
  \/ CommitBlock
  \/ PushBlock
  \/ PushConfirmation

SpecSignals == InitSignals /\ [][NextSignals]_vars

\* ------------------------------------------------------------- properties

\* the stores hold after the step what they held before it
StoresKept ==
  /\ db'.data = db.data
  /\ db'.revision = db.revision
  /\ token_db'.data = token_db.data

\* the call just made was a public push_transaction
Pushed == last'.op = "push_transaction"

\* C1: in every reachable state without a pending state the state-store
\* revision equals the block number of the controller head
C1_RevisionIsHeadNumber ==
  (~crashed /\ ~pending.valid) => db.revision = blocks[head].block_num

\* C2: a push_block or push_confirmation whose maybe_switch_forks throws
\* leaves the head and the contents of both stores as they were before it
C2_ThrowingSwitchRestores ==
  [][(/\ last'.op \in {"push_block", "push_confirmation"}
      /\ last'.msf # "none"
      /\ last'.exc # "none"
      /\ ~crashed')
     => (head' = head /\ StoresKept)]_vars

\* C3: a push_transaction that fails (it throws, or its trace carries an
\* exception) leaves the contents of both stores as they were before it
C3_FailedPushKeepsStores ==
  [][(Pushed /\ (last'.exc # "none" \/ last'.except # "none")) => StoresKept]_vars

\* both stores hold after the step what pending remembers of start_block
Restored ==
  /\ db'.data = pending.pre.db
  /\ db'.revision = pending.pre.revision
  /\ token_db'.data = pending.pre.token_db

\* C4: abort_block after start_block and push_transaction calls only, or an
\* exception of a start_block that is called without a pending state, leaves
\* no pending state and both stores as they were before that start_block
C4_DroppingPendingRollsBack ==
  [][/\ (last'.op = "abort_block" /\ pending.valid /\ pending.plain)
          => (~pending'.valid /\ Restored)
     /\ (last'.op = "start_block" /\ last'.exc # "none" /\ ~pending.valid)
          => (~pending'.valid /\ StoresKept)]_vars

C4_Witness ==
  /\ last.op = "abort_block" /\ last.nundo = 1 /\ last.nrollback = 1
  /\ unapplied_transactions # {}
  /\ ~pending.valid

\* C4 as stated: the same after every exception inside start_block
C4_AnyStartBlockException ==
  [][/\ (last'.op = "abort_block" /\ pending.valid /\ pending.plain)
          => (~pending'.valid /\ Restored)
     /\ (last'.op = "start_block" /\ last'.exc # "none")
          => (~pending'.valid /\ StoresKept)]_vars

\* C5: after a successful commit_block the state-store revision is the new
\* head's block number and the token store holds a savepoint of that name
C5_CommitTagsSavepoint ==
  (last.op = "commit_block" /\ last.exc = "none") =>
     /\ db.revision = blocks[head].block_num
     /\ \E i \in 1..Len(token_db.savepoints) : token_db.savepoints[i].seq = db.revision

\* C6: the token store retains a savepoint for every undo state the state
\* store retains, so that each pop_block finds one of either
C6_SavepointPerUndoState ==
  ~crashed => Len(token_db.savepoints) >= Len(db.stack)

\* C7: every call commits the state store as often as it pops savepoints of
\* the token store, and undoes the one as often as it rolls back the other
C7_StoresMoveTogether ==
  /\ last.ncommit = last.npop
  /\ last.nundo = last.nrollback

C7_Witness == last.ncommit > 0 /\ last.nundo > 0

\* C8: a failed push_transaction leaves the receipts, the trxs and the
\* actions of the pending block as they were; a successful one appends the
\* transaction and its action receipts, and nothing else
C8_FailedPushLeavesNoFootprint ==
  [][Pushed =>
       LET t == last'.arg.trx
       IN IF last'.exc = "none" /\ last'.except = "none"
          THEN /\ pending'.bs.body = Append(pending.bs.body, t)
               /\ pending'.bs.trxs = Append(pending.bs.trxs, t)
               /\ pending'.actions = pending.actions \o ActionsOf(<<t>>)
          ELSE /\ pending'.bs.body = pending.bs.body
               /\ pending'.bs.trxs = pending.bs.trxs
               /\ pending'.actions = pending.actions]_vars

C8_Witness ==
  /\ last.op = "push_transaction" /\ last.except = "action_exception"
  /\ Len(pending.bs.body) = 1 /\ Len(pending.bs.trxs) = 1 /\ pending.actions # <<>>

\* C9: push_transaction with a deadline throws nothing; an authorization
\* failure, a throwing handler and an expired deadline are each returned in
\* the except field of the trace
C9_FailureGoesToTrace ==
  (last.op = "push_transaction" /\ last.arg.deadline # 0) =>
     LET t    == last.arg.trx
         d    == last.arg.deadline
         acts == TrxActions(t)
     IN /\ last.exc = "none"
        /\ ~TrxAuthorized(t) => last.except = "tx_missing_sigs"
        /\ (TrxAuthorized(t) /\ \E i \in 1..Len(acts) : acts[i] = "throw" /\ i < d)
             => last.except = "action_exception"
        /\ (TrxAuthorized(t) /\ d <= Len(acts) /\ \A j \in 1..(d - 1) : acts[j] # "throw")
             => last.except = "deadline_exception"

C9_Witness ==
  /\ last.op = "push_transaction" /\ last.exc = "none"
  /\ last.except \in {"tx_missing_sigs", "deadline_exception"}

\* C10: after push_transaction of t returned, t is not in
\* unapplied_transactions unless the trace carries a deadline_exception, and
\* then unapplied_transactions is what it was
C10_UnappliedAfterPush ==
  [][(Pushed /\ last'.exc = "none") =>
       IF last'.except = "deadline_exception"
       THEN unapplied_transactions' = unapplied_transactions
       ELSE last'.arg.trx \notin unapplied_transactions']_vars

C10_Witness ==
  /\ last.op = "push_transaction" /\ last.except = "deadline_exception"
  /\ last.arg.trx \in unapplied_transactions

\* a block of the fork database that carries a block extension or a
\* transaction with an unauthorized or throwing action
HoldsFailure(id) ==
  \/ blocks[id].ext
  \/ \E i \in 1..Len(blocks[id].body) : ~Applies(blocks[id].body[i])

\* C11: every apply_block of a block that holds a failure throws, and every
\* apply_block that throws leaves no pending state, the head it was called
\* with and both stores as they were when it was called
C11_ApplyBlockFailureAborts ==
  \A i \in 1..Len(last.applied) :
    LET a == last.applied[i]
    IN /\ HoldsFailure(a.id) => a.exc # "none"
       /\ a.exc # "none" => (~a.pending /\ a.head_kept /\ a.stores_kept)

\* C12: after a push_block that returned normally, whichever path
\* maybe_switch_forks took, the controller's head is the fork database's head
C12_HeadIsForkHeadAfterPush ==
  (last.op = "push_block" /\ last.exc = "none") => head = fork_db.head

C12_Witness ==
  /\ last.op = "push_block" /\ last.exc = "none" /\ last.msf = "reorg"
  /\ Len(last.applied) = 2
  /\ head = fork_db.head

\* the blocks a step takes out of the current chain, and those it puts in
Reverted == {b \in 1..Len(blocks) : blocks[b].in_current_chain /\ ~blocks'[b].in_current_chain}

Replayed ==
  {b \in 1..Len(blocks') :
     blocks'[b].in_current_chain /\ (b > Len(blocks) \/ ~blocks[b].in_current_chain)}

\* the transactions the blocks of set ids carry
TrxsIn(ids) == UNION {Range(blocks'[b].body) : b \in ids}

\* C13: after a reorg every transaction of a reverted block that no block
\* of the new branch carries is in unapplied_transactions, and no
\* transaction of a block of the new branch is
C13_RevertedAreUnapplied ==
  [][(/\ last'.op \in {"push_block", "push_confirmation"}
      /\ last'.msf = "reorg"
      /\ last'.exc = "none")
     => /\ (TrxsIn(Reverted) \ TrxsIn(Replayed)) \subseteq unapplied_transactions'
        /\ TrxsIn(Replayed) \cap unapplied_transactions' = {}]_vars

\* C14: abort_block with a pending state leaves unapplied_transactions with
\* the signed_id of every transaction of pending.trxs added to it and no
\* pending state; abort_block without a pending state changes nothing
C14_AbortMovesPendingTrxs ==
  [][last'.op = "abort_block" =>
       IF pending.valid
       THEN /\ unapplied_transactions' = unapplied_transactions \cup Range(pending.bs.trxs)
            /\ ~pending'.valid
       ELSE UNCHANGED <<blocks, head, fork_db, db, token_db, pending,
                        unapplied_transactions, blog, accepted>>]_vars

C14_Witness ==
  /\ last.op = "abort_block" /\ last.exc = "none"
  /\ unapplied_transactions = {"tOk"}
  /\ blocks[head].block_num > 1
  /\ ~pending.valid

Chained(log) ==
  \A i \in 1..(Len(log) - 1) :
    /\ blocks[log[i + 1]].previous = log[i]
    /\ blocks[log[i + 1]].block_num = blocks[log[i]].block_num + 1

\* C16: the block log is a chain, and an on_irreversible event for any block
\* s leaves the log as it is or appends s, appends s only when s has the
\* number after the log head's and the log head as previous, and appends
\* nothing when s is more than one number ahead of the log head
C16_BlockLogIsChain ==
  /\ Chained(blog)
  /\ \A s \in 1..Len(blocks) :
       LET r  == on_irreversible(Cur, s)
           lh == blog[Len(blog)]
       IN /\ r.blog \in {blog, Append(blog, s)}
          /\ r.blog # blog =>
               /\ blocks[s].block_num = blocks[lh].block_num + 1
               /\ blocks[s].previous = lh
          /\ blocks[s].block_num - 1 > blocks[lh].block_num =>
               (r.blog = blog /\ r.exc = "none")

C16_Witness ==
  /\ Len(blog) >= 2
  /\ \E s \in 1..Len(blocks) : blocks[s].block_num - 1 > blocks[blog[Len(blog)]].block_num

\* controller::last_irreversible_block_num() (no confirmation raises
\* bft_irreversible_blocknum in these runs)
last_irreversible_block_num == blocks[head].lib

\* the blocks the events of the step appended to the block log, in order
RECURSIVE LoggedIn(_)
LoggedIn(events) ==
  IF events = <<>> THEN <<>>
  ELSE (IF events[1].logged THEN <<events[1].id>> ELSE <<>>) \o LoggedIn(Tail(events))

RECURSIVE ChainOf(_)
ChainOf(id) == IF id = 0 THEN {} ELSE {id} \cup ChainOf(blocks[id].previous)

\* the newest block of the current chain whose number maps to the slot
MostRecentAt(slot) ==
  CHOOSE b \in ChainOf(head) :
    /\ blocks[b].block_num % RingSize = slot
    /\ \A o \in ChainOf(head) :
         blocks[o].block_num % RingSize = slot => blocks[o].block_num <= blocks[b].block_num

\* C18: for every block of the current chain the slot block_num & 0xFFFF of
\* the block summary ring holds the id of the newest block of the current
\* chain that maps to the slot
C18_SummaryHoldsChainIds ==
  ~crashed =>
    \A b \in ChainOf(head) :
      LET slot == blocks[b].block_num % RingSize
      IN /\ slot \in DOMAIN db.data.summary
         /\ db.data.summary[slot] = MostRecentAt(slot)

\* the pending block of the empty-block scenario as commit_block is called:
\* only the genesis block is known, and start_block, finalize_block and
\* sign_block have run with no transaction pushed
EmptyBlockOnGenesis ==
  /\ head = 1 /\ Len(blocks) = 1
  /\ pending.valid /\ pending.finalized /\ pending.signed
  /\ pending.pushes = 0 /\ pending.bs.body = <<>> /\ pending.actions = <<>>

\* C19 (as the code has it): committing the empty block built on genesis
\* succeeds and makes head the block numbered genesis + 1 whose action and
\* transaction roots are the merkle root of the empty list; the summary slot
\* of the new block's number (genesis + 1) holds its id, and slot 1, the
\* slot of the genesis block, still holds the genesis id
C19_EmptyBlockFromGenesis ==
  [][(EmptyBlockOnGenesis /\ last'.op = "commit_block")
       => /\ last'.exc = "none"
          /\ head' # head
          /\ blocks'[head'].previous = head
          /\ blocks'[head'].block_num = blocks[1].block_num + 1
          /\ blocks'[head'].hdr.action_mroot = merkle(<<>>)
          /\ blocks'[head'].hdr.transaction_mroot = merkle(<<>>)
          /\ (blocks[1].block_num + 1) % RingSize \in DOMAIN db'.data.summary
          /\ db'.data.summary[(blocks[1].block_num + 1) % RingSize] = head'
          /\ db'.data.summary[1] = 1]_vars

C19_Witness ==
  /\ last.op = "commit_block" /\ last.exc = "none"
  /\ Len(blocks) = 2 /\ head = 2 /\ blocks[2].previous = 1
  /\ blocks[2].body = <<>> /\ blocks[2].block_num = blocks[1].block_num + 1
  /\ db.data.summary = <<1, 2>>

\* C19 (as stated): ... and summary slot 1 is updated, that is, no longer
\* holds the id it held before the block was built
C19_EmptyBlockUpdatesSlotOne ==
  [][(EmptyBlockOnGenesis /\ last'.op = "commit_block")
       => /\ blocks'[head'].block_num = blocks[1].block_num + 1
          /\ blocks'[head'].hdr.action_mroot = merkle(<<>>)
          /\ blocks'[head'].hdr.transaction_mroot = merkle(<<>>)
          /\ db'.data.summary[1] # 1]_vars

\* the controller with subscribers that return
Quiet == [Cur EXCEPT !.throwing = {}]

\* what a call leaves apart from the record of its signals: head, pending
\* state, stores, block log, fork database, and what it threw or returned
Outcome(c) == [c EXCEPT !.throwing = {}, !.signals = <<>>, !.caught = 0]

\* C20: every controller operation that emits a signal leaves the same
\* head, pending state, stores and block log and returns or throws the same
\* whether the subscribers of the signals throw or return
C20_SubscriberThrowChangesNothing ==
  /\ (pending.valid /\ pending.finalized)
       => Outcome(commit_block(Cur, TRUE)) = Outcome(commit_block(Quiet, TRUE))
  /\ pending.valid
       => \A t \in Trxs, deadline \in Deadlines :
            Outcome(push_transaction(Cur, t, "client", deadline, FALSE))
              = Outcome(push_transaction(Quiet, t, "client", deadline, FALSE))
  /\ \A prev \in 1..Len(blocks), content \in BlockContents, ub \in UBOutcomes :
       \A lib \in LibsAfter(prev) :
         LET b == [NoBlock EXCEPT !.previous = prev,
                                  !.block_num = blocks[prev].block_num + 1,
                                  !.lib = lib,
                                  !.body = content.body,
                                  !.hdr = content.hdr,
                                  !.ext = content.ext]
         IN Outcome(push_block(Cur, b, FALSE, ub)) = Outcome(push_block(Quiet, b, FALSE, ub))
  /\ \A ub \in UBOutcomes :
       Outcome(push_confirmation(Cur, ub)) = Outcome(push_confirmation(Quiet, ub))
  /\ \A s \in 1..Len(blocks) :
       Outcome(on_irreversible(Cur, s)) = Outcome(on_irreversible(Quiet, s))

\* a call during which emit caught what a subscriber threw, once for the
\* irreversible_block signal
C20_Witness ==
  /\ throwing = Signals
  /\ last.op = "push_block" /\ last.exc = "none"
  /\ last.caught = Len(last.signals)
  /\ {"accepted_block_header", "irreversible_block", "applied_transaction", "accepted_block"}
       \subseteq Range(last.signals)
  /\ head = fork_db.head /\ blocks[head].block_num > 1

\* the number of emissions of a signal in a list of signals
RECURSIVE Emissions(_, _)
Emissions(signals, signal) ==
  IF signals = <<>> THEN 0
  ELSE (IF signals[1] = signal THEN 1 ELSE 0) + Emissions(Tail(signals), signal)

\* the call the step makes is a push_transaction that applied its transaction
AppliedPush == Pushed /\ last'.exc = "none" /\ last'.except = "none"

\* C21: a push_transaction on a caller's metadata object emits
\* accepted_transaction once if it applies the transaction and the object's
\* accepted flag is not set, and not at all otherwise; the flag is set by
\* exactly these calls and cleared by none, so the signal is emitted on the
\* first successful application of a metadata object and never again;
\* applied_transaction is emitted once by every call that applies the
\* transaction and by no other
C21_AcceptedOncePerMetadata ==
  [][/\ Pushed =>
          LET t == last'.arg.trx
          IN /\ Emissions(last'.signals, "accepted_transaction")
                  = IF AppliedPush /\ t \notin accepted THEN 1 ELSE 0
             /\ Emissions(last'.signals, "applied_transaction")
                  = IF AppliedPush THEN 1 ELSE 0
             /\ accepted' = IF AppliedPush THEN accepted \cup {t} ELSE accepted
     /\ ~Pushed => accepted' = accepted]_vars

\* a retry of a transaction that was applied before (its block was aborted
\* or popped): it is applied again and accepted_transaction is not emitted
C21_Witness ==
  /\ last.op = "push_transaction" /\ last.exc = "none" /\ last.except = "none"
  /\ last.signals = <<"applied_transaction">>
  /\ last.arg.trx \in accepted
  /\ Len(pending.bs.trxs) = 1

\* the step leaves the controller as it found it (the call counters of the
\* stores and the note on how the pending block was started are observation)
Untouched ==
  /\ UNCHANGED <<blocks, head, fork_db, db, token_db, unapplied_transactions, blog, accepted>>
  /\ [pending' EXCEPT !.plain = FALSE] = [pending EXCEPT !.plain = FALSE]

\* the calls that assert there is no pending state
AssertsNoPending == {"start_block", "push_block", "push_confirmation"}

\* C22 (as the code has it): a pending state comes into being only by a
\* start_block that returns and goes away only by commit_block or
\* abort_block; while it exists start_block, push_block and
\* push_confirmation throw and change nothing, and so does start_block when
\* the state-store revision is not the head block number; after abort_block,
\* and after a commit_block that returns, there is no pending state, while a
\* commit_block that throws leaves the pending state in place
C22_PendingLifetime ==
  [][/\ (pending.valid /\ last'.op \in AssertsNoPending)
          => (last'.exc # "none" /\ Untouched)
     /\ (last'.op = "start_block" /\ db.revision # blocks[head].block_num)
          => (last'.exc # "none" /\ Untouched)
     /\ (pending'.valid /\ ~pending.valid)
          => (last'.op = "start_block" /\ last'.exc = "none")
     /\ (pending.valid /\ ~pending'.valid)
          => last'.op \in {"commit_block", "abort_block"}
     /\ last'.op = "abort_block" => ~pending'.valid
     /\ last'.op = "commit_block" => (pending'.valid <=> last'.exc # "none")]_vars

\* a block pushed while a block is pending: refused, the pending block stays
C22_Witness ==
  /\ last.op = "push_block"
  /\ last.exc = "it is not valid to push a block when there is a pending block"
  /\ pending.valid /\ Len(pending.bs.body) = 1
  /\ Len(blocks) = 1

\* C22 (as stated): ... and after every commit_block or abort_block there is
\* no pending state
C22_NoPendingAfterCommitOrAbort ==
  [][/\ (pending.valid /\ last'.op \in AssertsNoPending)
          => (last'.exc # "none" /\ Untouched)
     /\ (last'.op = "start_block" /\ db.revision # blocks[head].block_num)
          => (last'.exc # "none" /\ Untouched)
     /\ last'.op \in {"commit_block", "abort_block"} => ~pending'.valid]_vars

\* the step is a call of set_proposed_producers while a block is pending
Proposed == last'.op = "set_proposed_producers" /\ pending.valid

\* the proposal a successful call records: block head + 1, the list, the
\* version of the schedule in effect plus one
ProposalOf(producers) ==
  [proposed_schedule_block_num |-> blocks[head].block_num + 1,
   proposed_schedule |-> [version |-> in_effect_schedule(pending.bs).version + 1,
                          producers |-> producers]]

\* no proposal is pending for a block other than head + 1
NoEarlierProposal ==
  db.data.gpo.proposed_schedule_block_num \in {0, blocks[head].block_num + 1}

\* what set_proposed_producers leaves alone whatever it returns
RestKept ==
  /\ UNCHANGED <<blocks, head, fork_db, token_db, unapplied_transactions, blog, accepted>>
  /\ [pending' EXCEPT !.plain = FALSE] = [pending EXCEPT !.plain = FALSE]
  /\ [db' EXCEPT !.data.gpo = NoProposal] = [db EXCEPT !.data.gpo = NoProposal]

\* C23 (as the code has it): called while a block is pending,
\* set_proposed_producers returns true and records the proposal for block
\* head + 1 with the version of the schedule in effect plus one if and only
\* if no proposal is pending for another block, the list differs from the
\* list already proposed for block head + 1 (if any) and the list differs
\* from the schedule in effect; otherwise it returns false and leaves the
\* global properties unchanged
C23_ProposalAccepted ==
  [][Proposed =>
       LET producers == last'.arg
           gpo       == db.data.gpo
           ok == /\ NoEarlierProposal
                 /\ (gpo.proposed_schedule_block_num # 0
                       => producers # gpo.proposed_schedule.producers)
                 /\ producers # in_effect_schedule(pending.bs).producers
       IN /\ last'.exc = "none" /\ RestKept
          /\ IF ok THEN last'.ret = "true" /\ db'.data.gpo = ProposalOf(producers)
             ELSE last'.ret = "false" /\ db'.data.gpo = gpo]_vars

\* a proposal recorded while a block beyond the first is pending; the undo
\* state of the pending block remembers that there was none
C23_Witness ==
  /\ last.op = "set_proposed_producers" /\ last.ret = "true"
  /\ pending.valid
  /\ db.data.gpo.proposed_schedule = [version |-> 1, producers |-> <<>>]
  /\ db.data.gpo.proposed_schedule_block_num = blocks[head].block_num + 1
  /\ db.stack[Len(db.stack)].data.gpo = NoProposal
  /\ blocks[head].block_num > 1

\* C23 (as stated): ... if and only if no proposal is pending for another
\* block and the list differs from the schedule in effect
C23_ProposalAcceptedIffNew ==
  [][Proposed =>
       LET producers == last'.arg
           ok == /\ NoEarlierProposal
                 /\ producers # in_effect_schedule(pending.bs).producers
       IN IF ok THEN last'.ret = "true" /\ db'.data.gpo = ProposalOf(producers)
          ELSE last'.ret = "false" /\ db'.data.gpo = db.data.gpo]_vars

\* C28: a start_block that returns makes the proposed schedule the pending
\* schedule of the pending block and clears the proposal if and only if a
\* proposal is set, its block number is at most the pending block's
\* dpos_irreversible_blocknum, the pending schedule is empty and was not
\* promoted to active by this start_block; otherwise, and when start_block
\* throws, the proposal is left as it was
C28_ProposedBecomesPending ==
  [][last'.op = "start_block" =>
       IF last'.exc # "none" THEN db'.data.gpo = db.data.gpo
       ELSE LET gpo      == db.data.gpo
                parent   == blocks[head]
                lib      == pending'.bs.lib
                promoted == /\ parent.pending_schedule.producers # <<>>
                            /\ lib >= parent.pending_schedule_lib_num
                inherited == IF promoted THEN <<>> ELSE parent.pending_schedule.producers
                moves    == /\ gpo.proposed_schedule_block_num # 0
                            /\ gpo.proposed_schedule_block_num <= lib
                            /\ inherited = <<>>
                            /\ ~promoted
            IN IF moves
               THEN /\ pending'.bs.pending_schedule = gpo.proposed_schedule
                    /\ db'.data.gpo = NoProposal
               ELSE /\ pending'.bs.pending_schedule.producers = inherited
                    /\ db'.data.gpo = gpo]_vars

\* a start_block that moved a proposal into the pending schedule: the undo
\* state of the pending block still holds the proposal
C28_Witness ==
  /\ last.op = "start_block" /\ last.exc = "none"
  /\ pending.valid
  /\ pending.bs.pending_schedule = [version |-> 1, producers |-> <<"p">>]
  /\ db.data.gpo = NoProposal
  /\ db.stack[Len(db.stack)].data.gpo.proposed_schedule_block_num = 2

\* the signed block a block state was made of
SignedBlockOf(bs) ==
  [bs EXCEPT !.trxs = <<>>, !.validated = FALSE, !.in_current_chain = FALSE]

\* the contents of the two stores (what a state digest is taken of) and the
\* revision of the state store
Stores(c) ==
  [db |-> c.db.data, revision |-> c.db.revision, token_db |-> c.token_db.data]

\* C24: whenever pop_block succeeds on a controller without a pending block
\* whose head is the fork database's head, pushing the popped block again
\* succeeds and leaves head, the state store and the token store as they
\* were before the pop
C24_PopThenPushIsNoOp ==
  (~crashed /\ ~pending.valid /\ head = fork_db.head) =>
    LET popped == pop_block(Cur)
        pushed == push_block_as([popped EXCEPT !.db.nundo = 0, !.token_db.nrollback = 0],
                                head, SignedBlockOf(blocks[head]), FALSE, 0)
    IN popped.exc = "none" =>
         /\ pushed.exc = "none"
         /\ pushed.head = head
         /\ Stores(pushed) = Stores(Cur)

\* the step is a push whose reorg ran into an apply_block that threw, and
\* the process survived it
FailedReorg ==
  /\ last'.op \in {"push_block", "push_confirmation"}
  /\ last'.msf = "reorg"
  /\ \E i \in 1..Len(last'.applied) : last'.applied[i].exc # "none"
  /\ ~crashed'

\* the first apply_block of the step that threw
FirstFailure ==
  last'.applied[CHOOSE i \in 1..Len(last'.applied) :
                  /\ last'.applied[i].exc # "none"
                  /\ \A k \in 1..(i - 1) : last'.applied[k].exc = "none"]

\* the blocks marked as being in the current chain
InChain(bs) == {b \in 1..Len(bs) : bs[b].in_current_chain}

\* the failing block and the blocks built on it have left the fork database
FailedBranchInvalid ==
  \A b \in fork_db'.index :
    FirstFailure.id \notin Range(Ancestry(blocks', 1..Len(blocks'), b))

\* C25: when the replay of a block of the apply branch throws during a
\* reorg, that block and the blocks after it on the apply branch leave the
\* fork database, the blocks of the apply branch applied so far are popped
\* and the blocks of the old branch re-applied, so that head and the blocks
\* marked in-current-chain are those before the call, and the call throws
\* the exception the replay threw
C25_FailedReorgIsReversed ==
  [][FailedReorg =>
       /\ FailedBranchInvalid
       /\ head' = head
       /\ InChain(blocks') = InChain(blocks)
       /\ last'.exc = FirstFailure.exc]_vars

\* a push_block or push_confirmation that switched forks and returned
SuccessfulReorg ==
  /\ last'.op \in {"push_block", "push_confirmation"}
  /\ last'.msf = "reorg"
  /\ last'.exc = "none"
  /\ ~crashed'

\* the old head and its ancestors, and the new fork database head and its
\* ancestors, newest first
OldChain == Ancestry(blocks', 1..Len(blocks'), head)

NewChain == Ancestry(blocks', 1..Len(blocks'), fork_db'.head)

\* both branches down to the common ancestor (excluded), newest first
OldBranch == UpTo(OldChain, Range(NewChain))

NewBranch == UpTo(NewChain, Range(OldChain))

\* C26: a reorg that succeeds pops the blocks of the old branch, as many
\* pop_block as the branch has blocks, and marks each not in the current
\* chain; it then applies the blocks of the new branch from the common
\* ancestor upwards, each on top of the one before and none before the last
\* pop, marks each in the current chain, and ends with the fork database's
\* head as head
C26_ReorgPopsThenApplies ==
  [][SuccessfulReorg =>
       /\ last'.nundo = Len(OldBranch)
       /\ \A b \in Range(OldBranch) : ~blocks'[b].in_current_chain
       /\ Len(last'.applied) = Len(NewBranch)
       /\ \A i \in 1..Len(last'.applied) :
            LET a == last'.applied[i]
            IN /\ a.id = NewBranch[Len(NewBranch) + 1 - i]
               /\ a.exc = "none"
               /\ a.pops = Len(OldBranch)
               /\ a.from = blocks'[a.id].previous
       /\ \A b \in Range(NewBranch) : blocks'[b].in_current_chain
       /\ head' = fork_db'.head]_vars

\* a reorg that popped the old head and then applied a branch of two
\* blocks, the lower one first, has returned
C26_Witness ==
  /\ last.op = "push_block" /\ last.msf = "reorg" /\ last.exc = "none" /\ ~crashed
  /\ last.nundo = 1
  /\ Len(last.applied) = 2
  /\ \A i \in 1..2 : last.applied[i].pops = 1
  /\ last.applied[2].from = last.applied[1].id
  /\ last.applied[2].id = head

\* a push_block or push_confirmation whose maybe_switch_forks found the fork
\* database's head built on the controller's head
FastPath ==
  /\ last'.op \in {"push_block", "push_confirmation"}
  /\ last'.msf = "fast"
  /\ Len(last'.applied) = 1

\* C27: on the fast path of maybe_switch_forks, a block whose apply_block
\* returns is marked in the current chain and valid and is the head when the
\* call returns; a block whose apply_block throws is marked invalid and
\* leaves the fork database, the call throws the same exception and the
\* head is the one the call started with
C27_FastPath ==
  [][FastPath =>
       LET a == last'.applied[1]
       IN IF a.exc = "none"
          THEN /\ blocks'[a.id].in_current_chain
               /\ blocks'[a.id].validated
               /\ head' = a.id
               /\ last'.exc = "none"
          ELSE /\ ~blocks'[a.id].validated
               /\ a.id \notin fork_db'.index
               /\ last'.exc = a.exc
               /\ head' = head]_vars

\* a fast path push has failed on a block that carries transactions
C27_Witness ==
  /\ last.op = "push_block" /\ last.msf = "fast"
  /\ Len(last.applied) = 1
  /\ last.applied[1].exc # "none"
  /\ last.exc = last.applied[1].exc
  /\ blocks[last.applied[1].id].body # <<>>
  /\ last.applied[1].id \notin fork_db.index

\* a block of the fork database one of whose transactions does not apply:
\* push_transaction of it returns a trace that carries an exception
HoldsFailingTrx(id) == \E k \in 1..Len(blocks[id].body) : ~Applies(blocks[id].body[k])

\* C29: no apply_block of a block one of whose transactions ends with an
\* exception in its trace commits the block: the apply_block throws and the
\* block is not the head when the call returns
C29_CommitsOnlyAppliedReceipts ==
  \A i \in 1..Len(last.applied) :
    HoldsFailingTrx(last.applied[i].id)
      => (last.applied[i].exc # "none" /\ head # last.applied[i].id)

\* commit_block(true) has thrown out of its assertion on the fork database's
\* head
CommitAssertFailed ==
  /\ last'.op = "commit_block"
  /\ last'.exc = "committed block did not become the new head in fork database"

\* C30: a commit_block(true) that fails its assertion that the block it
\* added became the fork database's head leaves the controller's head as it
\* was before the call
C30_FailedCommitKeepsHead ==
  [][CommitAssertFailed => head' = head]_vars

\* C31: while a pending state exists, the pending block has as many
\* receipts as pending.trxs has metadata and the i-th receipt is that of
\* the i-th metadata, whichever of the pushed transactions applied or failed
C31_ReceiptsMatchMetadata ==
  pending.valid =>
    /\ Len(pending.bs.body) = Len(pending.bs.trxs)
    /\ \A i \in 1..Len(pending.bs.trxs) : pending.bs.body[i] = pending.bs.trxs[i]

\* a push_transaction has failed on a pending block that holds the receipt
\* of an earlier one
C31_Witness ==
  /\ pending.valid
  /\ last.op = "push_transaction" /\ last.exc = "none" /\ last.except # "none"
  /\ Len(pending.bs.trxs) = 1
  /\ Len(pending.bs.body) = 1

====
